---- MODULE Spec2Model ----
(***************************************************************************)
(* Model of the tzevaotChat HTTP endpoint (Cloud Function) and of the      *)
(* Firestore collection "tzevaotUsers" it reads and writes.                *)
(*                                                                         *)
(* JavaScript values are records tagged by their type in field t.  A       *)
(* JavaScript string is a sequence of one-character strings, so that       *)
(* toLowerCase, trim and String() are computed and not assumed.            *)
(***************************************************************************)
EXTENDS Integers, Sequences, FiniteSets, TLC

\* store: the collection; req: the requests being handled; clock: the time,
\* which advances when a request arrives; started, adminWrites: counters
\* that bound a behaviour
VARIABLES store, req, clock, started, adminWrites

vars == <<store, req, clock, started, adminWrites>>

(***************************************************************************)
(* Bounds of the model.                                                    *)
(***************************************************************************)
\* number of requests (GET or POST) received in one behaviour
MaxRequests == 2
\* number of writes of the external process that maintains notes/mintCount
MaxAdminWrites == 1

(***************************************************************************)
(* Program constants.                                                      *)
(***************************************************************************)
\* newHistory.slice(-20)
HistoryLimit == 20
\* existingHistory.slice(-10)
ContextWindow == 10

(***************************************************************************)
(* JavaScript values.                                                      *)
(***************************************************************************)
Undefined == [t |-> "undefined"]
JsStr(s) == [t |-> "string", v |-> s]
JsBool(b) == [t |-> "boolean", v |-> b]
JsNum(n) == [t |-> "number", v |-> n]
JsArr(a) == [t |-> "array", v |-> a]
JsObj == [t |-> "object"]

\* ToBoolean, as applied by the ! operator
Truthy(x) ==
  CASE x.t = "undefined" -> FALSE
    [] x.t = "string" -> x.v # <<>>
    [] x.t = "boolean" -> x.v
    [] x.t = "number" -> x.v # 0
    [] OTHER -> TRUE

IsArray(x) == x.t = "array"

Digit(d) ==
  CASE d = 0 -> "0" [] d = 1 -> "1" [] d = 2 -> "2" [] d = 3 -> "3"
    [] d = 4 -> "4" [] d = 5 -> "5" [] d = 6 -> "6" [] d = 7 -> "7"
    [] d = 8 -> "8" [] OTHER -> "9"

RECURSIVE NatToString(_)
NatToString(n) ==
  IF n < 10 THEN <<Digit(n)>> ELSE NatToString(n \div 10) \o <<Digit(n % 10)>>

\* Array.prototype.join(sep) on an array of strings
RECURSIVE Join(_, _)
Join(ss, sep) ==
  IF ss = <<>> THEN <<>>
  ELSE IF Len(ss) = 1 THEN ss[1]
  ELSE ss[1] \o sep \o Join(Tail(ss), sep)

\* String(x)
RECURSIVE JsString(_)
JsString(x) ==
  CASE x.t = "string" -> x.v
    [] x.t = "undefined" -> <<"u","n","d","e","f","i","n","e","d">>
    [] x.t = "boolean" -> IF x.v THEN <<"t","r","u","e">> ELSE <<"f","a","l","s","e">>
    [] x.t = "number" -> NatToString(x.v)
    [] x.t = "array" -> Join([i \in 1..Len(x.v) |-> JsString(x.v[i])], <<",">>)
    [] OTHER -> <<"[","o","b","j","e","c","t"," ","O","b","j","e","c","t","]">>

LowerChar(c) ==
  CASE c = "A" -> "a" [] c = "B" -> "b" [] c = "C" -> "c" [] c = "D" -> "d"
    [] c = "E" -> "e" [] c = "F" -> "f" [] c = "O" -> "o"
    [] OTHER -> c

\* String.prototype.toLowerCase
ToLowerCase(s) == [i \in 1..Len(s) |-> LowerChar(s[i])]

IsSpace(c) == c = " "

\* String.prototype.trim
RECURSIVE TrimStart(_)
TrimStart(s) ==
  IF s # <<>> /\ IsSpace(s[1]) THEN TrimStart(Tail(s)) ELSE s

RECURSIVE TrimEnd(_)
TrimEnd(s) ==
  IF s # <<>> /\ IsSpace(s[Len(s)]) THEN TrimEnd(SubSeq(s, 1, Len(s) - 1)) ELSE s

Trim(s) == TrimEnd(TrimStart(s))

\* Array.prototype.slice(-n), n > 0
SliceLast(a, n) ==
  IF Len(a) <= n THEN a ELSE SubSeq(a, Len(a) - n + 1, Len(a))

(***************************************************************************)
(* The Firestore collection tzevaotUsers.  A document is a record of all   *)
(* the fields the endpoint reads; a field that was never written holds the *)
(* value the endpoint's own defaulting (|| 0, || "", Array.isArray, !!)    *)
(* gives it, and exists tells whether the document was ever written.       *)
(***************************************************************************)
NoDoc ==
  [exists |-> FALSE, isHolder |-> FALSE, mintCount |-> 0, seenCount |-> 0,
   notes |-> <<>>, daysOwned |-> <<>>, history |-> <<>>,
   lastMessage |-> <<>>, lastReply |-> <<>>, lastSeen |-> 0]

\* the key taken as supplied: String(walletAddress)
NormalizedWalletCaseKept(walletAddress) == JsString(walletAddress)

\* String(walletAddress).toLowerCase()
NormalizedWallet(walletAddress) == ToLowerCase(JsString(walletAddress))

\* db.collection("tzevaotUsers").doc(path) rejects an empty path
ValidDocPath(path) == path # <<>>

\* userDoc.exists ? userDoc.data() : {}
UserData(doc) == IF doc.exists THEN doc ELSE NoDoc

\* daysOwned without the fallback to the stored ones
NormalizedDaysOwnedNoFallback(daysOwned, userData) ==
  IF IsArray(daysOwned) /\ Len(daysOwned.v) > 0
  THEN [i \in 1..Len(daysOwned.v) |-> JsString(daysOwned.v[i])]
  ELSE <<>>

\* daysOwned taken from the payload whenever it is an array, also an empty one
NormalizedDaysOwnedEmptyTaken(daysOwned, userData) ==
  IF IsArray(daysOwned)
  THEN [i \in 1..Len(daysOwned.v) |-> JsString(daysOwned.v[i])]
  ELSE userData.daysOwned

\* let normalizedDaysOwned = [] ... daysOwned.map((d) => String(d))
NormalizedDaysOwned(daysOwned, userData) ==
  IF IsArray(daysOwned) /\ Len(daysOwned.v) > 0
  THEN [i \in 1..Len(daysOwned.v) |-> JsString(daysOwned.v[i])]
  ELSE userData.daysOwned

\* a context that is the whole stored history
HistoryForContextWhole(existingHistory) == existingHistory

\* existingHistory.slice(-10)
HistoryForContext(existingHistory) == SliceLast(existingHistory, ContextWindow)

IsDigit(c) == c \in {"0", "1", "2", "3", "4", "5", "6", "7", "8", "9"}

DigitValue(c) ==
  CASE c = "0" -> 0 [] c = "1" -> 1 [] c = "2" -> 2 [] c = "3" -> 3
    [] c = "4" -> 4 [] c = "5" -> 5 [] c = "6" -> 6 [] c = "7" -> 7
    [] c = "8" -> 8 [] OTHER -> 9

\* the longest prefix of s made of decimal digits
RECURSIVE DigitPrefix(_)
DigitPrefix(s) ==
  IF s # <<>> /\ IsDigit(s[1]) THEN <<s[1]>> \o DigitPrefix(Tail(s)) ELSE <<>>

\* the number a sequence of decimal digits denotes
RECURSIVE DigitsValue(_)
DigitsValue(s) ==
  IF s = <<>> THEN 0
  ELSE 10 * DigitsValue(SubSeq(s, 1, Len(s) - 1)) + DigitValue(s[Len(s)])

\* parseInt(d, 10): leading white space is skipped, a sign is read, then the
\* longest run of digits; NaN when there is no digit
ParseInt(d) ==
  LET t == TrimStart(d)
      signed == t # <<>> /\ t[1] \in {"+", "-"}
      digits == DigitPrefix(IF signed THEN Tail(t) ELSE t)
  IN IF digits = <<>> THEN [nan |-> TRUE, n |-> 0]
     ELSE [nan |-> FALSE,
           n |-> IF signed /\ t[1] = "-" THEN 0 - DigitsValue(digits)
                 ELSE DigitsValue(digits)]

\* normalizedDaysOwned.some(d => !Number.isNaN(n) && n <= 365)
HasGenesisDay(normalizedDaysOwned) ==
  \E i \in 1..Len(normalizedDaysOwned) :
    LET n == ParseInt(normalizedDaysOwned[i]) IN ~n.nan /\ n.n <= 365

\* normalizedDaysOwned.some(d => !Number.isNaN(n) && n > 365 && n <= 365 * 3)
HasLongJourneyDay(normalizedDaysOwned) ==
  \E i \in 1..Len(normalizedDaysOwned) :
    LET n == ParseInt(normalizedDaysOwned[i])
    IN ~n.nan /\ n.n > 365 /\ n.n <= 365 * 3

\* the interpolated parts of the systemPrompt template
SystemPrompt(walletAddress, isHolder, userData, normalizedDaysOwned) ==
  [wallet |-> JsString(walletAddress),
   holder |-> IF Truthy(isHolder) THEN "YES" ELSE "NO",
   mintCount |-> userData.mintCount,
   seenCount |-> userData.seenCount,
   notes |-> IF userData.notes # <<>> THEN userData.notes
             ELSE <<"None recorded yet.">>,
   daysOwnedList |-> IF Len(normalizedDaysOwned) # 0
                     THEN Join(normalizedDaysOwned, <<",", " ">>)
                     ELSE <<"none">>,
   firstDay |-> IF normalizedDaysOwned # <<>> /\ normalizedDaysOwned[1] # <<>>
                THEN normalizedDaysOwned[1] ELSE <<"...">>]

\* role: entry.from === "user" ? "user" : "assistant"
ContextMessage(entry) ==
  [role |-> IF entry.from = "user" THEN "user" ELSE "assistant",
   content |-> entry.text, system |-> <<>>]

\* const messagesForOpenAI = [system, ...historyForContext.map(...), user]
MessagesForOpenAI(systemPrompt, historyForContext, message) ==
  <<[role |-> "system", content |-> <<>>, system |-> <<systemPrompt>>]>>
  \o [i \in 1..Len(historyForContext) |-> ContextMessage(historyForContext[i])]
  \o <<[role |-> "user", content |-> JsString(message), system |-> <<>>]>>

FallbackReply == <<"The Lord of Hosts is silent for a moment. Ask again, seeker.">>

\* the reply taken from the completion without the fallback
ReplyNoFallback(content) ==
  IF content.t = "string" THEN Trim(content.v) ELSE <<>>

\* the fallback decided before the trim: (content || fallback).trim()
ReplyFallbackBeforeTrim(content) ==
  IF content.t = "string" /\ content.v # <<>>
  THEN Trim(content.v) ELSE FallbackReply

\* completion.choices?.[0]?.message?.content?.trim() || fallback
Reply(content) ==
  IF content.t = "string" /\ Trim(content.v) # <<>>
  THEN Trim(content.v) ELSE FallbackReply

\* a pair appended with the reply first and a later timestamp on the message
NewHistoryReplyFirst(existingHistory, message, reply, now) ==
  existingHistory \o <<[from |-> "tzevaot", text |-> reply, ts |-> now],
                       [from |-> "user", text |-> JsString(message), ts |-> now + 1]>>

\* existingHistory.concat([{from: "user", ...}, {from: "tzevaot", ...}])
NewHistory(existingHistory, message, reply, now) ==
  existingHistory \o <<[from |-> "user", text |-> JsString(message), ts |-> now],
                       [from |-> "tzevaot", text |-> reply, ts |-> now]>>

\* a store without the trim: the history is kept whole
TrimmedHistoryUntrimmed(newHistory) == newHistory

\* the trim taken from the wrong end: slice(0, 20)
TrimmedHistoryOldest(newHistory) ==
  IF Len(newHistory) <= HistoryLimit THEN newHistory
  ELSE SubSeq(newHistory, 1, HistoryLimit)

\* the trim off by one: slice(-19)
TrimmedHistoryOffByOne(newHistory) == SliceLast(newHistory, HistoryLimit - 1)

\* newHistory.slice(-20)
TrimmedHistory(newHistory) == SliceLast(newHistory, HistoryLimit)

\* an increment applied twice
IncrementTwice(stored) == stored + 2

\* FieldValue.increment(1), applied by the store to the stored value
Increment(stored) == stored + 1

\* a write that appends the new pair to the stored history (arrayUnion)
\* instead of replacing the history
SetMergeAppending(doc, isHolder, message, reply, trimmedHistory, daysOwned, serverTime) ==
  [doc EXCEPT !.exists = TRUE,
              !.isHolder = Truthy(isHolder),
              !.lastSeen = serverTime,
              !.lastMessage = JsString(message),
              !.lastReply = reply,
              !.seenCount = Increment(doc.seenCount),
              !.history = SliceLast(doc.history \o SliceLast(trimmedHistory, 2),
                                    HistoryLimit),
              !.daysOwned = daysOwned]

\* a write without { merge: true }: the document is replaced
SetMergeReplacing(doc, isHolder, message, reply, trimmedHistory, daysOwned, serverTime) ==
  [NoDoc EXCEPT !.exists = TRUE,
                !.isHolder = Truthy(isHolder),
                !.lastSeen = serverTime,
                !.lastMessage = JsString(message),
                !.lastReply = reply,
                !.seenCount = Increment(0),
                !.history = trimmedHistory,
                !.daysOwned = daysOwned]

\* a write that sets the counter instead of incrementing it (seenCount: 1)
SetMergeCountSet(doc, isHolder, message, reply, trimmedHistory, daysOwned, serverTime) ==
  [doc EXCEPT !.exists = TRUE,
              !.isHolder = Truthy(isHolder),
              !.lastSeen = serverTime,
              !.lastMessage = JsString(message),
              !.lastReply = reply,
              !.seenCount = 1,
              !.history = trimmedHistory,
              !.daysOwned = daysOwned]

\* userRef.set({...}, { merge: true }): the fields named are replaced, the
\* others are kept, and the document exists afterwards
SetMerge(doc, isHolder, message, reply, trimmedHistory, daysOwned, serverTime) ==
  [doc EXCEPT !.exists = TRUE,
              !.isHolder = Truthy(isHolder),
              !.lastSeen = serverTime,
              !.lastMessage = JsString(message),
              !.lastReply = reply,
              !.seenCount = Increment(doc.seenCount),
              !.history = trimmedHistory,
              !.daysOwned = daysOwned]

\* a GET that answers for an absent document with seenCount 1
GetBodyCountingVisit(userDoc) ==
  IF ~userDoc.exists
  THEN [kind |-> "profile", reply |-> <<>>, history |-> <<>>,
        isHolder |-> FALSE, seenCount |-> 1, daysOwned |-> <<>>]
  ELSE [kind |-> "profile", reply |-> <<>>, history |-> userDoc.history,
        isHolder |-> userDoc.isHolder, seenCount |-> userDoc.seenCount,
        daysOwned |-> userDoc.daysOwned]

\* the body of the GET response
GetBody(userDoc) ==
  IF ~userDoc.exists
  THEN [kind |-> "profile", reply |-> <<>>, history |-> <<>>,
        isHolder |-> FALSE, seenCount |-> 0, daysOwned |-> <<>>]
  ELSE [kind |-> "profile", reply |-> <<>>, history |-> userDoc.history,
        isHolder |-> userDoc.isHolder, seenCount |-> userDoc.seenCount,
        daysOwned |-> userDoc.daysOwned]

\* the body of the POST response
PostBody(reply, trimmedHistory) ==
  [kind |-> "chat", reply |-> reply, history |-> trimmedHistory,
   isHolder |-> FALSE, seenCount |-> 0, daysOwned |-> <<>>]

ErrorBody ==
  [kind |-> "error", reply |-> <<>>, history |-> <<>>,
   isHolder |-> FALSE, seenCount |-> 0, daysOwned |-> <<>>]

NoBody ==
  [kind |-> "none", reply |-> <<>>, history |-> <<>>,
   isHolder |-> FALSE, seenCount |-> 0, daysOwned |-> <<>>]

(***************************************************************************)
(* Inputs.                                                                 *)
(***************************************************************************)
WalletABC == JsStr(<<"0", "x", "A", "B", "C">>)
Walletabc == JsStr(<<"0", "x", "a", "b", "c">>)
WalletD == JsStr(<<"0", "x", "D">>)

\* req.body.walletAddress, req.query.walletAddress
Wallets == {Undefined, WalletABC, Walletabc, WalletD}

Hello == JsStr(<<"H", "e", "l", "l", "o">>)
Again == JsStr(<<"A", "g", "a", "i", "n">>)

Days3 == JsArr(<<JsStr(<<"1", "0", "0">>), JsStr(<<"5", "0", "0">>),
                 JsStr(<<"2", "0", "0", "0">>)>>)
Days1 == JsArr(<<JsNum(7)>>)

\* req.body.daysOwned
DaysOwnedInputs == {Undefined, JsArr(<<>>), Days3, Days1, JsStr(<<"7">>)}

Body(w, h, m, d) ==
  [walletAddress |-> w, isHolder |-> h, message |-> m, daysOwned |-> d]

\* the request bodies and query parameters of the exchanges: two identities
\* that differ in case only, two messages, and the requests the handler rejects
PostBodies ==
  {Body(WalletABC, JsBool(TRUE), Hello, Undefined),
   Body(Walletabc, Undefined, Again, Undefined),
   Body(Undefined, JsBool(TRUE), Hello, Undefined),
   Body(WalletABC, JsBool(TRUE), Undefined, Undefined)}

GetWallets == {Undefined, Walletabc}

\* the request bodies that differ in daysOwned only
DaysBodies == {Body(Walletabc, Undefined, Again, d) : d \in DaysOwnedInputs}

DaysGetWallets == {Walletabc}

\* identities that are missing, empty or not strings, and one that is
IdentityInputs ==
  {Undefined, JsStr(<<>>), JsNum(7), JsBool(TRUE), JsArr(<<>>), JsObj, Walletabc}

\* messages that are missing or empty
MissingMessages == {Undefined, JsStr(<<>>)}

\* the request bodies that differ in the identity, and those without message
IdentityBodies ==
  {Body(w, Undefined, Again, Undefined) : w \in IdentityInputs}
  \cup {Body(Walletabc, Undefined, m, Undefined) : m \in MissingMessages}

IdentityGetWallets == {Undefined, JsNum(7)}

\* owned items of the early band, of the mid band, of no band, and one that
\* is not a number
BandInputs ==
  {JsArr(<<JsStr(<<"1", "0", "0">>)>>), JsArr(<<JsStr(<<"5", "0", "0">>)>>),
   JsArr(<<JsStr(<<"2", "0", "0", "0">>)>>), JsArr(<<JsStr(<<"x", "7">>)>>)}

\* the request bodies that differ in the band of their owned items only
BandBodies == {Body(Walletabc, Undefined, Again, d) : d \in BandInputs}

\* completion.choices?.[0]?.message?.content
Contents == {Undefined, JsStr(<<>>), JsStr(<<" ">>), JsStr(<<" ", "o", "k">>)}

\* values the external process writes
AdminNotes == {<<"v", "i", "p">>}
AdminMintCounts == {3}

\* the document ids of the collection: ids are case-sensitive
DocIds ==
  LET ids == {JsString(w) : w \in {x \in Wallets \cup IdentityInputs : Truthy(x)}}
  IN {d \in ids \cup {ToLowerCase(d) : d \in ids} : ValidDocPath(d)}

\* the documents the external process writes
AdminDocs == {<<"0", "x", "a", "b", "c">>}

(***************************************************************************)
(* The state of one request being handled.                                 *)
(***************************************************************************)
\* two requests can be in flight at the same time
Slots == {1, 2}

Idle ==
  [pc |-> "idle", method |-> "NONE",
   walletAddress |-> Undefined, isHolder |-> Undefined,
   message |-> Undefined, daysOwned |-> Undefined,
   normalizedWallet |-> <<>>, userData |-> NoDoc,
   normalizedDaysOwned |-> <<>>,
   hasGenesisDay |-> FALSE, hasLongJourneyDay |-> FALSE,
   messagesForOpenAI |-> <<>>,
   reply |-> <<>>, now |-> 0, trimmedHistory |-> <<>>,
   status |-> 0, body |-> NoBody,
   nGet |-> 0, nCreate |-> 0, nSet |-> 0]

Free(s) == req[s].pc \in {"idle", "done"}

\* a new request is handled in the first free slot
FirstFree(s) == Free(s) /\ \A r \in Slots : r < s => ~Free(r)

\* res.status(code).json(body): the handler returns and its locals are gone;
\* the request and its response stay on record
Respond(r, code, body) ==
  [Idle EXCEPT !.pc = "done", !.method = r.method,
               !.walletAddress = r.walletAddress, !.isHolder = r.isHolder,
               !.message = r.message, !.daysOwned = r.daysOwned,
               !.status = code, !.body = body,
               !.nGet = r.nGet, !.nCreate = r.nCreate, !.nSet = r.nSet]

(***************************************************************************)
(* Stored documents the endpoint produces by sequential exchanges.         *)
(***************************************************************************)
SeedKey == <<"0", "x", "a", "b", "c">>
SeedReply == <<"o", "k">>

RECURSIVE Seed(_)
Seed(k) ==
  IF k = 0 THEN NoDoc
  ELSE LET prev == Seed(k - 1)
       IN SetMerge(prev, JsBool(TRUE), Hello, SeedReply,
                   TrimmedHistory(NewHistory(prev.history, Hello, SeedReply, k)),
                   NormalizedDaysOwned(Undefined, prev), k)

\* no exchange stored, one pair below the limit, at the limit
SeedSizes == {0, HistoryLimit \div 2 - 1, HistoryLimit \div 2}

InitSeeded(k) ==
  /\ store = [d \in DocIds |-> IF d = SeedKey THEN Seed(k) ELSE NoDoc]
  /\ clock = k
  /\ req = [s \in Slots |-> Idle]
  /\ started = 0
  /\ adminWrites = 0

Init == \E k \in SeedSizes : InitSeeded(k)

\* every record absent
InitEmpty == InitSeeded(0)

(***************************************************************************)
(* GET: fetch history without calling the completion provider.             *)
(***************************************************************************)
\* the handler up to "await userRef.get()"
GetReceive(s, walletAddress) ==
  /\ started < MaxRequests
  /\ FirstFree(s)
  /\ started' = started + 1
  /\ clock' = clock + 1
  /\ LET r == [Idle EXCEPT !.method = "GET", !.walletAddress = walletAddress]
     IN req' = [req EXCEPT ![s] =
          IF ~Truthy(walletAddress) THEN Respond(r, 400, ErrorBody)
          ELSE IF ~ValidDocPath(NormalizedWallet(walletAddress))
          THEN Respond(r, 500, ErrorBody)
          ELSE [r EXCEPT !.pc = "get", !.nGet = 1,
                         !.normalizedWallet = NormalizedWallet(walletAddress)]]
  /\ UNCHANGED <<store, adminWrites>>

\* a GET that creates the document it did not find
GetLoadedCreating(s) ==
  /\ req[s].method = "GET"
  /\ req[s].pc = "get"
  /\ req' = [req EXCEPT ![s] =
       Respond(req[s], 200, GetBody(store[req[s].normalizedWallet]))]
  /\ store' = [store EXCEPT ![req[s].normalizedWallet] = [@ EXCEPT !.exists = TRUE]]
  /\ UNCHANGED <<clock, started, adminWrites>>

\* userRef.get() resolves, the handler answers
GetLoaded(s) ==
  /\ req[s].method = "GET"
  /\ req[s].pc = "get"
  /\ req' = [req EXCEPT ![s] =
       Respond(req[s], 200, GetBody(store[req[s].normalizedWallet]))]
  /\ UNCHANGED <<store, clock, started, adminWrites>>

\* userRef.get() rejects: catch, 500
GetLoadFails(s) ==
  /\ req[s].method = "GET"
  /\ req[s].pc = "get"
  /\ req' = [req EXCEPT ![s] = Respond(req[s], 500, ErrorBody)]
  /\ UNCHANGED <<store, clock, started, adminWrites>>

(***************************************************************************)
(* POST: one exchange with the persona.                                    *)
(***************************************************************************)
\* a handler that checks the identity and not the message
PostReceiveWalletOnly(s, b) ==
  /\ started < MaxRequests
  /\ FirstFree(s)
  /\ started' = started + 1
  /\ clock' = clock + 1
  /\ LET r == [Idle EXCEPT !.method = "POST",
                           !.walletAddress = b.walletAddress,
                           !.isHolder = b.isHolder,
                           !.message = b.message,
                           !.daysOwned = b.daysOwned]
     IN req' = [req EXCEPT ![s] =
          IF ~Truthy(b.walletAddress)
          THEN Respond(r, 400, ErrorBody)
          ELSE IF ~ValidDocPath(NormalizedWallet(b.walletAddress))
          THEN Respond(r, 500, ErrorBody)
          ELSE [r EXCEPT !.pc = "get", !.nGet = 1,
                         !.normalizedWallet = NormalizedWallet(b.walletAddress)]]
  /\ UNCHANGED <<store, adminWrites>>

\* the handler up to "await userRef.get()"
PostReceive(s, b) ==
  /\ started < MaxRequests
  /\ FirstFree(s)
  /\ started' = started + 1
  /\ clock' = clock + 1
  /\ LET r == [Idle EXCEPT !.method = "POST",
                           !.walletAddress = b.walletAddress,
                           !.isHolder = b.isHolder,
                           !.message = b.message,
                           !.daysOwned = b.daysOwned]
     IN req' = [req EXCEPT ![s] =
          IF ~Truthy(b.walletAddress) \/ ~Truthy(b.message)
          THEN Respond(r, 400, ErrorBody)
          ELSE IF ~ValidDocPath(NormalizedWallet(b.walletAddress))
          THEN Respond(r, 500, ErrorBody)
          ELSE [r EXCEPT !.pc = "get", !.nGet = 1,
                         !.normalizedWallet = NormalizedWallet(b.walletAddress)]]
  /\ UNCHANGED <<store, adminWrites>>

\* userRef.get() resolves; the handler runs up to
\* "await client.chat.completions.create(...)"
PostLoaded(s) ==
  /\ req[s].method = "POST"
  /\ req[s].pc = "get"
  /\ LET r == req[s]
         userData == UserData(store[r.normalizedWallet])
         normalizedDaysOwned == NormalizedDaysOwned(r.daysOwned, userData)
         systemPrompt == SystemPrompt(r.walletAddress, r.isHolder, userData,
                                      normalizedDaysOwned)
     IN req' = [req EXCEPT ![s] =
          [r EXCEPT !.pc = "create", !.nCreate = r.nCreate + 1,
                    !.userData = userData,
                    !.normalizedDaysOwned = normalizedDaysOwned,
                    !.hasGenesisDay = HasGenesisDay(normalizedDaysOwned),
                    !.hasLongJourneyDay = HasLongJourneyDay(normalizedDaysOwned),
                    !.messagesForOpenAI =
                       MessagesForOpenAI(systemPrompt,
                                         HistoryForContext(userData.history),
                                         r.message)]]
  /\ UNCHANGED <<store, clock, started, adminWrites>>

\* a rejected userRef.get() caught on its own: the handler goes on to the
\* provider with the empty default
PostLoadFailsDegrading(s) ==
  /\ req[s].method = "POST"
  /\ req[s].pc = "get"
  /\ LET r == req[s]
         normalizedDaysOwned == NormalizedDaysOwned(r.daysOwned, NoDoc)
         systemPrompt == SystemPrompt(r.walletAddress, r.isHolder, NoDoc,
                                      normalizedDaysOwned)
     IN req' = [req EXCEPT ![s] =
          [r EXCEPT !.pc = "create", !.nCreate = r.nCreate + 1,
                    !.userData = NoDoc,
                    !.normalizedDaysOwned = normalizedDaysOwned,
                    !.messagesForOpenAI =
                       MessagesForOpenAI(systemPrompt, <<>>, r.message)]]
  /\ UNCHANGED <<store, clock, started, adminWrites>>

\* userRef.get() rejects: catch, 500
PostLoadFails(s) ==
  /\ req[s].method = "POST"
  /\ req[s].pc = "get"
  /\ req' = [req EXCEPT ![s] = Respond(req[s], 500, ErrorBody)]
  /\ UNCHANGED <<store, clock, started, adminWrites>>

\* OPENAI_API_KEY is not bound: throw before the provider is called
PostNoApiKey(s) ==
  /\ req[s].method = "POST"
  /\ req[s].pc = "get"
  /\ req' = [req EXCEPT ![s] =
       Respond(req[s], 500, ErrorBody)]
  /\ UNCHANGED <<store, clock, started, adminWrites>>

\* a write that is not awaited: the response is sent when the write is issued
PostCompletedRespondingFirst(s, content) ==
  /\ req[s].method = "POST"
  /\ req[s].pc = "create"
  /\ LET r == req[s]
         reply == Reply(content)
         now == clock
         trimmedHistory == TrimmedHistory(NewHistory(r.userData.history,
                                                     r.message, reply, now))
     IN req' = [req EXCEPT ![s] =
          [r EXCEPT !.pc = "set", !.nSet = r.nSet + 1,
                    !.reply = reply, !.now = now,
                    !.trimmedHistory = trimmedHistory,
                    !.status = 200,
                    !.body = PostBody(reply, trimmedHistory)]]
  /\ UNCHANGED <<store, clock, started, adminWrites>>

\* the provider answers; the handler runs up to "await userRef.set(...)"
PostCompleted(s, content) ==
  /\ req[s].method = "POST"
  /\ req[s].pc = "create"
  /\ LET r == req[s]
         reply == Reply(content)
         now == clock
     IN req' = [req EXCEPT ![s] =
          [r EXCEPT !.pc = "set", !.nSet = r.nSet + 1,
                    !.reply = reply, !.now = now,
                    !.trimmedHistory =
                       TrimmedHistory(NewHistory(r.userData.history, r.message,
                                                 reply, now))]]
  /\ UNCHANGED <<store, clock, started, adminWrites>>

\* a rejected provider call that is tried once more
PostProviderFailsRetrying(s) ==
  /\ req[s].method = "POST"
  /\ req[s].pc = "create"
  /\ req' = [req EXCEPT ![s] =
       IF req[s].nCreate < 2
       THEN [req[s] EXCEPT !.nCreate = req[s].nCreate + 1]
       ELSE Respond(req[s], 500, ErrorBody)]
  /\ UNCHANGED <<store, clock, started, adminWrites>>

\* the provider call rejects: catch, 500
PostProviderFails(s) ==
  /\ req[s].method = "POST"
  /\ req[s].pc = "create"
  /\ req' = [req EXCEPT ![s] = Respond(req[s], 500, ErrorBody)]
  /\ UNCHANGED <<store, clock, started, adminWrites>>

\* a write that stores the loaded seenCount plus one (seenCount: seenCount + 1)
PostStoredLoadedCount(s) ==
  /\ req[s].method = "POST"
  /\ req[s].pc = "set"
  /\ LET r == req[s]
     IN /\ store' = [store EXCEPT ![r.normalizedWallet] =
               [SetMerge(@, r.isHolder, r.message, r.reply, r.trimmedHistory,
                         r.normalizedDaysOwned, clock)
                  EXCEPT !.seenCount = r.userData.seenCount + 1]]
        /\ req' = [req EXCEPT ![s] =
               Respond(r, 200, PostBody(r.reply, r.trimmedHistory))]
  /\ UNCHANGED <<clock, started, adminWrites>>

\* userRef.set(..., {merge: true}) is applied and resolves; 200
PostStored(s) ==
  /\ req[s].method = "POST"
  /\ req[s].pc = "set"
  /\ LET r == req[s]
     IN /\ store' = [store EXCEPT ![r.normalizedWallet] =
               SetMerge(@, r.isHolder, r.message, r.reply, r.trimmedHistory,
                        r.normalizedDaysOwned, clock)]
        /\ req' = [req EXCEPT ![s] =
               Respond(r, 200, PostBody(r.reply, r.trimmedHistory))]
  /\ UNCHANGED <<clock, started, adminWrites>>

\* an update issued as two writes, of which the second rejects: the
\* counter and the timestamp are stored, the exchange is not
PostStoreFailsPartial(s) ==
  /\ req[s].method = "POST"
  /\ req[s].pc = "set"
  /\ store' = [store EXCEPT ![req[s].normalizedWallet] =
       [@ EXCEPT !.exists = TRUE,
                 !.seenCount = Increment(store[req[s].normalizedWallet].seenCount),
                 !.lastSeen = clock]]
  /\ req' = [req EXCEPT ![s] = Respond(req[s], 500, ErrorBody)]
  /\ UNCHANGED <<clock, started, adminWrites>>

\* userRef.set rejects, nothing is stored: catch, 500
PostStoreFails(s) ==
  /\ req[s].method = "POST"
  /\ req[s].pc = "set"
  /\ req' = [req EXCEPT ![s] = Respond(req[s], 500, ErrorBody)]
  /\ UNCHANGED <<store, clock, started, adminWrites>>

(***************************************************************************)
(* The external process that maintains notes and mintCount.                *)
(***************************************************************************)
AdminWrite(d, notes, mintCount) ==
  /\ adminWrites < MaxAdminWrites
  /\ adminWrites' = adminWrites + 1
  /\ store' = [store EXCEPT ![d] =
       [@ EXCEPT !.exists = TRUE, !.notes = notes, !.mintCount = mintCount]]
  /\ UNCHANGED <<req, clock, started>>

\* the steps that follow the arrival of a request
Handle ==
  \/ \E s \in Slots : GetLoaded(s)
  \/ \E s \in Slots : GetLoadFails(s)
  \/ \E s \in Slots : PostLoaded(s)
  \/ \E s \in Slots : PostLoadFails(s)
  \/ \E s \in Slots : PostNoApiKey(s)
  \/ \E s \in Slots, c \in Contents : PostCompleted(s, c)
  \/ \E s \in Slots : PostProviderFails(s)
  \/ \E s \in Slots : PostStored(s)
  \/ \E s \in Slots : PostStoreFails(s)
  \/ \E d \in AdminDocs, n \in AdminNotes, m \in AdminMintCounts : AdminWrite(d, n, m)

Next ==
  \/ \E s \in Slots, w \in GetWallets : GetReceive(s, w)
  \/ \E s \in Slots, b \in PostBodies : PostReceive(s, b)
  \/ Handle

Spec == Init /\ [][Next]_vars

NextDays ==
  \/ \E s \in Slots, w \in DaysGetWallets : GetReceive(s, w)
  \/ \E s \in Slots, b \in DaysBodies : PostReceive(s, b)
  \/ Handle

\* the exchanges whose requests differ in daysOwned only
SpecDays == InitEmpty /\ [][NextDays]_vars

\* no other POST for the record of request s is between its load and its write
NoneBetweenLoadAndWrite(s) ==
  \A r \in Slots \ {s} :
    ~(/\ req[r].method = "POST"
      /\ req[r].pc \in {"create", "set"}
      /\ req[r].normalizedWallet = req[s].normalizedWallet)

\* userRef.get() of a POST resolves while no other POST for the same record
\* is between its load and its write
PostLoadedSerial(s) ==
  /\ NoneBetweenLoadAndWrite(s)
  /\ PostLoaded(s)

NextSerial ==
  \/ \E s \in Slots, w \in GetWallets : GetReceive(s, w)
  \/ \E s \in Slots, b \in PostBodies : PostReceive(s, b)
  \/ \E s \in Slots : GetLoaded(s)
  \/ \E s \in Slots : GetLoadFails(s)
  \/ \E s \in Slots : PostLoadedSerial(s)
  \/ \E s \in Slots : PostLoadFails(s)
  \/ \E s \in Slots : PostNoApiKey(s)
  \/ \E s \in Slots, c \in Contents : PostCompleted(s, c)
  \/ \E s \in Slots : PostProviderFails(s)
  \/ \E s \in Slots : PostStored(s)
  \/ \E s \in Slots : PostStoreFails(s)

\* the exchanges of each record one after another, the records written by
\* POSTs only
SpecSerial == Init /\ [][NextSerial]_vars

NextBands ==
  \/ \E s \in Slots, w \in DaysGetWallets : GetReceive(s, w)
  \/ \E s \in Slots, b \in BandBodies : PostReceive(s, b)
  \/ Handle

\* the exchanges whose requests differ in the band of their owned items
SpecBands == InitEmpty /\ [][NextBands]_vars

NextIdentity ==
  \/ \E s \in Slots, w \in IdentityGetWallets : GetReceive(s, w)
  \/ \E s \in Slots, b \in IdentityBodies : PostReceive(s, b)
  \/ Handle

\* the requests whose identity or message is missing, empty or not a string
SpecIdentity == InitEmpty /\ [][NextIdentity]_vars

(***************************************************************************)
(* Properties.                                                             *)
(***************************************************************************)
Min(a, b) == IF a <= b THEN a ELSE b

\* the last n elements of a sequence, in their order
LastN(q, n) ==
  LET m == Min(Len(q), n) IN [i \in 1..m |-> q[Len(q) - m + i]]

\* request s is a POST whose store write is applied in this step
Writes(s) ==
  /\ req[s].method = "POST"
  /\ req[s].pc = "set"
  /\ req'[s].pc = "done"
  /\ req'[s].status = 200

\* the entries a POST appends: the user message, then the reply
OwnPair(s) ==
  <<[from |-> "user", text |-> req[s].message.v, ts |-> req[s].now],
    [from |-> "tzevaot", text |-> req[s].reply, ts |-> req[s].now]>>

\* C1: in every reachable state every record's history has at most 20
\* entries, however the POST writes were ordered or interleaved.
C1_HistoryBounded == \A d \in DocIds : Len(store[d].history) <= 20

\* a record at the bound after a write that evicted the oldest pair
C1_Witness ==
  /\ Len(store[SeedKey].history) = 20
  /\ store[SeedKey].seenCount > 10
  /\ \E s \in Slots : req[s].pc = "done" /\ req[s].status = 200
                      /\ req[s].method = "POST"

\* C2: a write of a POST whose loaded history is the stored history persists
\* the last 20 entries of (stored history, user entry, persona entry): the
\* survivors keep their order and the new pair comes last.
C2_FifoAppend ==
  [][\A s \in Slots :
       (Writes(s) /\ req[s].userData.history = store[req[s].normalizedWallet].history)
       => store'[req[s].normalizedWallet].history
            = LastN(store[req[s].normalizedWallet].history \o OwnPair(s), 20)]_vars

\* the only request of the behaviour wrote a full record: the oldest pair
\* (timestamp 1) is gone, the pair of timestamp 2 is now first
C2_Witness ==
  /\ started = 1
  /\ \E s \in Slots : /\ req[s].pc = "done" /\ req[s].status = 200
                      /\ req[s].method = "POST"
                      /\ req[s].body.history = store[SeedKey].history
  /\ Len(store[SeedKey].history) = 20
  /\ store[SeedKey].history[1].ts = 2
  /\ store[SeedKey].history[19].from = "user"
  /\ store[SeedKey].history[20].from = "tzevaot"

\* C3: a write of a POST that loaded a history of length L persists a
\* history of length min(20, L + 2); L is also the stored length when no
\* other write came between the load and the write.
C3_LengthAfterAppend ==
  [][\A s \in Slots :
       Writes(s)
       => /\ Len(store'[req[s].normalizedWallet].history)
               = Min(20, Len(req[s].userData.history) + 2)
          /\ (Len(req[s].userData.history) = Len(store[req[s].normalizedWallet].history)
              => Len(store'[req[s].normalizedWallet].history)
                   = Min(20, Len(store[req[s].normalizedWallet].history) + 2))]_vars

\* the only request of the behaviour took a history of 18 entries to 20
C3_Witness ==
  /\ started = 1
  /\ \E s \in Slots : req[s].pc = "done" /\ req[s].status = 200
                      /\ req[s].method = "POST"
  /\ store[SeedKey].seenCount = 10
  /\ Len(store[SeedKey].history) = 20
  /\ store[SeedKey].history[1].ts = 1

\* request s is a POST that ends in this step with a 400 or a 500
Rejected(s) ==
  /\ req'[s] # req[s]
  /\ req'[s].method = "POST"
  /\ req'[s].pc = "done"
  /\ req'[s].status \in {400, 500}

\* C4: a write of a POST adds exactly 1 to the stored seenCount, with or
\* without eviction; a POST that ends with 400 or 500 leaves every
\* seenCount as it was.
C4_SeenCountPlusOne ==
  [][\A s \in Slots :
       /\ Writes(s) => store'[req[s].normalizedWallet].seenCount
                         = store[req[s].normalizedWallet].seenCount + 1
       /\ Rejected(s) => \A d \in DocIds : store'[d].seenCount = store[d].seenCount]_vars

\* one POST was rejected and one wrote a record that was at the bound: the
\* oldest pair was evicted and seenCount went from 10 to 11
C4_Witness ==
  /\ \E s \in Slots : req[s].pc = "done" /\ req[s].method = "POST"
                      /\ req[s].status = 400
  /\ \E s \in Slots : req[s].pc = "done" /\ req[s].method = "POST"
                      /\ req[s].status = 200
  /\ store[SeedKey].seenCount = 11
  /\ store[SeedKey].history[1].ts = 2

\* the values of a sequence
Range(q) == {q[i] : i \in 1..Len(q)}

\* C5: when a POST writes after another POST that had loaded the same
\* history has written, the stored history becomes the one this later
\* writer computed (loaded history, own pair, last 20): each entry is a
\* loaded entry or one of the writer's own two, the earlier writer's pair
\* is gone.
C5_LastWriterWins ==
  [][\A s \in Slots : \A r \in Slots \ {s} :
       LET k == req[s].normalizedWallet
           loaded == req[s].userData.history
           earlier == req[r].body.history
       IN (/\ Writes(s)
           /\ req[r].pc = "done" /\ req[r].method = "POST" /\ req[r].status = 200
           /\ store[k].history = earlier
           /\ earlier = LastN(loaded \o LastN(earlier, 2), 20))
          => /\ store'[k].history = LastN(loaded \o OwnPair(s), 20)
             /\ Range(store'[k].history) \subseteq Range(loaded) \cup Range(OwnPair(s))
             /\ Len(store'[k].history) = Len(earlier)]_vars

\* two POSTs with different messages both loaded the absent record and both
\* wrote: two writes were counted, one exchange is stored
C5_Witness ==
  /\ \A s \in Slots : /\ req[s].pc = "done" /\ req[s].method = "POST"
                      /\ req[s].status = 200
                      /\ Len(req[s].body.history) = 2
  /\ req[1].body.history[1].text # req[2].body.history[1].text
  /\ store[SeedKey].seenCount = 2
  /\ Len(store[SeedKey].history) = 2

\* C6: a write of a POST leaves the stored notes and mintCount as they are,
\* also when they were changed after the request loaded the record.
C6_NotesMintCountKept ==
  [][\A s \in Slots :
       Writes(s) => /\ store'[req[s].normalizedWallet].notes
                         = store[req[s].normalizedWallet].notes
                    /\ store'[req[s].normalizedWallet].mintCount
                         = store[req[s].normalizedWallet].mintCount]_vars

\* a POST has issued its write with notes and mintCount as it loaded them,
\* and the stored ones have been changed since
C6_Witness ==
  \E s \in Slots :
    /\ req[s].method = "POST" /\ req[s].pc = "set"
    /\ req[s].userData.notes # store[req[s].normalizedWallet].notes
    /\ req[s].userData.mintCount # store[req[s].normalizedWallet].mintCount

\* request s is a GET for which userRef.get() resolves in this step
GetAnswers(s) ==
  /\ req[s].method = "GET"
  /\ req[s].pc = "get"
  /\ req'[s].pc = "done"
  /\ req'[s].status = 200

\* request s is a POST for which userRef.get() resolves in this step
PostLoads(s) ==
  /\ req[s].method = "POST"
  /\ req[s].pc = "get"
  /\ req'[s].pc = "create"

\* the document id "0xabc"
Key0xabc == <<"0", "x", "a", "b", "c">>

\* C7: "0xABC" and "0xabc" address the record "0xabc": a POST for "0xABC"
\* that writes a record no POST has written leaves history of length 2,
\* seenCount 1 and its isHolder there, and a GET for "0xabc" answers with the
\* history, seenCount and isHolder of that record.
C7_CaseInsensitiveIdentity ==
  [][\A s \in Slots :
       /\ (req[s].pc \in {"get", "create", "set"}
           /\ req[s].walletAddress \in {WalletABC, Walletabc})
          => req[s].normalizedWallet = Key0xabc
       /\ (Writes(s) /\ req[s].walletAddress = WalletABC
           /\ store[Key0xabc].seenCount = 0 /\ store[Key0xabc].history = <<>>)
          => /\ Len(store'[Key0xabc].history) = 2
             /\ store'[Key0xabc].seenCount = 1
             /\ store'[Key0xabc].isHolder = (req[s].isHolder = JsBool(TRUE))
       /\ (GetAnswers(s) /\ req[s].walletAddress = Walletabc)
          => /\ req'[s].body.history = store[Key0xabc].history
             /\ req'[s].body.seenCount = store[Key0xabc].seenCount
             /\ req'[s].body.isHolder = store[Key0xabc].isHolder]_vars

\* a POST for "0xABC" with isHolder true was answered, then a GET for
\* "0xabc" was answered with history of length 2, seenCount 1 and isHolder
C7_Witness ==
  /\ req[1].pc = "done" /\ req[1].method = "POST" /\ req[1].status = 200
  /\ req[1].walletAddress = WalletABC /\ req[1].isHolder = JsBool(TRUE)
  /\ Len(req[1].body.history) = 2
  /\ req[2].pc = "done" /\ req[2].method = "GET" /\ req[2].status = 200
  /\ req[2].walletAddress = Walletabc
  /\ Len(req[2].body.history) = 2
  /\ req[2].body.seenCount = 1
  /\ req[2].body.isHolder

\* C8: a GET never invokes the completion provider and never changes the
\* store: it creates no record and modifies none.
C8_GetReadsOnly ==
  [][\A s \in Slots :
       (req'[s] # req[s] /\ req'[s].method = "GET")
       => /\ store' = store
          /\ req'[s].nCreate = 0
          /\ req'[s].nSet = 0]_vars

\* two GETs for a never-seen identity were answered and no record exists
C8_Witness ==
  /\ \A s \in Slots : /\ req[s].pc = "done" /\ req[s].method = "GET"
                      /\ req[s].status = 200 /\ req[s].nCreate = 0
  /\ \A d \in DocIds : ~store[d].exists

\* C9: a load that finds no record is answered as a load of the empty
\* default: a GET answers 200 with seenCount 0, empty history, isHolder
\* false and empty daysOwned, and a POST goes on to the provider with
\* those values.
C9_AbsentLoadsAsDefault ==
  [][\A s \in Slots :
       /\ (GetAnswers(s) /\ ~store[req[s].normalizedWallet].exists)
          => /\ req'[s].body.kind = "profile"
             /\ req'[s].body.seenCount = 0
             /\ req'[s].body.history = <<>>
             /\ req'[s].body.isHolder = FALSE
             /\ req'[s].body.daysOwned = <<>>
       /\ (PostLoads(s) /\ ~store[req[s].normalizedWallet].exists)
          => /\ req'[s].userData.seenCount = 0
             /\ req'[s].userData.history = <<>>
             /\ req'[s].userData.isHolder = FALSE
             /\ req'[s].userData.daysOwned = <<>>
             /\ req'[s].userData.mintCount = 0
             /\ req'[s].nCreate = 1
             /\ Len(req'[s].messagesForOpenAI) = 2]_vars

\* no record exists; a GET was answered with the default and a POST that
\* loaded the absent record has called the provider
C9_Witness ==
  /\ \A d \in DocIds : ~store[d].exists
  /\ \E s \in Slots : /\ req[s].pc = "done" /\ req[s].method = "GET"
                      /\ req[s].status = 200 /\ req[s].body.seenCount = 0
                      /\ req[s].body.history = <<>>
  /\ \E s \in Slots : /\ req[s].pc = "create" /\ req[s].method = "POST"
                      /\ ~req[s].userData.exists

\* the request supplies a non-empty sequence of owned items
SuppliesItems(s) == req[s].daysOwned.t = "array" /\ req[s].daysOwned.v # <<>>

\* the supplied items, each in its string form
SuppliedItems(s) ==
  [i \in 1..Len(req[s].daysOwned.v) |-> JsString(req[s].daysOwned.v[i])]

\* C10 as stated: a write persists the supplied ownedItems when they are a
\* non-empty sequence, and otherwise the ownedItems stored before the write.
C10_Original ==
  [][\A s \in Slots :
       Writes(s)
       => store'[req[s].normalizedWallet].daysOwned
            = IF SuppliesItems(s) THEN SuppliedItems(s)
              ELSE store[req[s].normalizedWallet].daysOwned]_vars

\* C10, amended: a write persists the supplied ownedItems (in string form)
\* when they are a non-empty sequence, and otherwise the ownedItems of the
\* record as the request loaded it, which are the stored ones when no write
\* came between its load and its write.
C10_OwnedItemsCarriedOver ==
  [][\A s \in Slots :
       Writes(s)
       => /\ store'[req[s].normalizedWallet].daysOwned
               = IF SuppliesItems(s) THEN SuppliedItems(s)
                 ELSE req[s].userData.daysOwned
          /\ (req[s].userData.daysOwned = store[req[s].normalizedWallet].daysOwned
              /\ ~SuppliesItems(s))
             => store'[req[s].normalizedWallet].daysOwned
                  = store[req[s].normalizedWallet].daysOwned]_vars

\* a POST with ownedItems 100, 500, 2000 was answered, then a POST without
\* ownedItems loaded that record and wrote: the three items are stored
C10_Witness ==
  /\ req[1].pc = "done" /\ req[1].method = "POST" /\ req[1].status = 200
  /\ req[1].daysOwned = Days3
  /\ Len(req[1].body.history) = 2
  /\ req[2].pc = "done" /\ req[2].method = "POST" /\ req[2].status = 200
  /\ req[2].daysOwned = Undefined
  /\ Len(req[2].body.history) = 4
  /\ store[Key0xabc].daysOwned
       = <<<<"1", "0", "0">>, <<"5", "0", "0">>, <<"2", "0", "0", "0">>>>

\* C11: the message list a POST sends to the completion provider is one
\* system message, then the last min(10, L) entries of the history it loaded
\* (L its length) in their stored order, user entries with role user and all
\* others with role assistant, then one user message with the new message;
\* its length is 2 + min(10, L).
C11_ProviderMessages ==
  [][\A s \in Slots :
       PostLoads(s)
       => LET h == store[req[s].normalizedWallet].history
              L == Len(h)
              m == Min(10, L)
              msgs == req'[s].messagesForOpenAI
          IN /\ req'[s].userData.history = h
             /\ Len(msgs) = 2 + m
             /\ msgs[1].role = "system"
             /\ msgs[1].system # <<>>
             /\ \A i \in 2..Len(msgs) : msgs[i].role # "system"
             /\ \A i \in 1..m :
                  /\ msgs[1 + i].content = h[L - m + i].text
                  /\ msgs[1 + i].role
                       = IF h[L - m + i].from = "user" THEN "user" ELSE "assistant"
             /\ msgs[2 + m].role = "user"
             /\ msgs[2 + m].content = req[s].message.v]_vars

\* the 11th of 11 sequential POSTs has loaded the 20 stored entries and
\* holds 12 messages for the provider, the first of the history being the
\* user entry of the 6th exchange
C11_Witness ==
  /\ started = 1
  /\ \E s \in Slots :
       /\ req[s].method = "POST" /\ req[s].pc = "create"
       /\ req[s].userData.seenCount = 10
       /\ Len(req[s].userData.history) = 20
       /\ req[s].userData.history[11].ts = 6
       /\ Len(req[s].messagesForOpenAI) = 12
       /\ req[s].messagesForOpenAI[2].role = "user"
       /\ req[s].messagesForOpenAI[11].role = "assistant"

\* C12: in every reachable state every record's history is a sequence of
\* adjacent pairs: a user entry, then the persona entry of the same exchange
\* with the same timestamp; the eviction at the bound of 20 leaves no persona
\* entry without its user entry at the front.
C12_HistoryInPairs ==
  \A d \in DocIds :
    LET h == store[d].history
    IN /\ Len(h) % 2 = 0
       /\ \A i \in 1..(Len(h) \div 2) :
            /\ h[2 * i - 1].from = "user"
            /\ h[2 * i].from = "tzevaot"
            /\ h[2 * i - 1].ts = h[2 * i].ts
       /\ (h # <<>> => h[1].from = "user")

\* two POSTs wrote one after the other on a record at the bound: two pairs
\* were evicted, and the history starts with the user entry of timestamp 3
C12_Witness ==
  /\ store[SeedKey].seenCount = 12
  /\ Len(store[SeedKey].history) = 20
  /\ store[SeedKey].history[1] = [from |-> "user", text |-> Hello.v, ts |-> 3]
  /\ store[SeedKey].history[2].from = "tzevaot"
  /\ store[SeedKey].history[2].ts = 3
  /\ store[SeedKey].history[19].ts = store[SeedKey].history[20].ts

\* C13 as stated: when the load of a POST fails the request goes on: the
\* empty default is used for the prompt and the provider is invoked, with no
\* write attempted.
C13_Original ==
  [][\A s \in Slots :
       PostLoadFails(s)
       => /\ req'[s].pc = "create"
          /\ req'[s].userData = NoDoc
          /\ req'[s].nCreate = 1
          /\ req'[s].nSet = 0]_vars

\* C13, amended: when the load of a POST fails the request ends there with
\* a server-error response: the provider is not invoked, no write is
\* attempted, no reply is returned and the store is unchanged; a POST goes on
\* to the provider only with the record as the store holds it.
C13_LoadFailureEnds ==
  [][\A s \in Slots :
       /\ PostLoadFails(s)
          => /\ req'[s].pc = "done"
             /\ req'[s].status = 500
             /\ req'[s].body.kind = "error"
             /\ req'[s].body.reply = <<>>
             /\ req'[s].nCreate = 0
             /\ req'[s].nSet = 0
             /\ store' = store
       /\ (req[s].method = "POST" /\ req[s].pc = "get" /\ req'[s].pc = "create")
          => req'[s].userData
               = IF store[req[s].normalizedWallet].exists
                 THEN store[req[s].normalizedWallet] ELSE NoDoc]_vars

\* the only request of the behaviour, a POST for a record of 10 exchanges,
\* ended with 500 after its load and before any provider call; the record
\* is as it was
C13_Witness ==
  /\ started = 1
  /\ \E s \in Slots :
       /\ req[s].method = "POST" /\ req[s].pc = "done"
       /\ req[s].status = 500 /\ req[s].body.kind = "error"
       /\ req[s].nGet = 1 /\ req[s].nCreate = 0 /\ req[s].nSet = 0
  /\ store[SeedKey].seenCount = 10
  /\ store[SeedKey].lastSeen = 10

\* a completion without text: content missing, empty or only whitespace
NoText(content) == content \in {Undefined, JsStr(<<>>), JsStr(<<" ">>)}

\* C14: when the provider returns no text (missing, empty or whitespace
\* only) the reply of the POST is the fixed fallback string, and when the POST
\* then writes it answers 200 with that string as reply and persists it as
\* lastReply and as the text of the persona entry appended to history.
C14_FallbackReplyPersisted ==
  [][\A s \in Slots :
       /\ \A c \in Contents :
            (PostCompleted(s, c) /\ NoText(c))
            => /\ req'[s].reply = FallbackReply
               /\ req'[s].pc = "set"
       /\ (Writes(s) /\ req[s].reply = FallbackReply)
          => LET k == req[s].normalizedWallet
                 h == store'[k].history
             IN /\ req'[s].status = 200
                /\ req'[s].body.reply = FallbackReply
                /\ store'[k].lastReply = FallbackReply
                /\ h[Len(h)] = [from |-> "tzevaot", text |-> FallbackReply,
                                ts |-> req[s].now]
                /\ req'[s].body.history = h]_vars

\* the only request of the behaviour was answered 200 with the fallback
\* string, which is the stored lastReply and the text of the last entry
C14_Witness ==
  /\ started = 1
  /\ \E s \in Slots :
       /\ req[s].method = "POST" /\ req[s].pc = "done" /\ req[s].status = 200
       /\ req[s].body.reply = FallbackReply
  /\ store[SeedKey].lastReply = FallbackReply
  /\ store[SeedKey].history # <<>>
  /\ store[SeedKey].history[Len(store[SeedKey].history)].text = FallbackReply
  /\ store[SeedKey].history[Len(store[SeedKey].history)].from = "tzevaot"

\* C15: every POST answered with 200 carries a non-empty reply, and every
\* persona entry stored in a history has a non-empty text.
C15_ReplyNeverEmpty ==
  /\ \A s \in Slots :
       (req[s].pc = "done" /\ req[s].method = "POST" /\ req[s].status = 200)
       => req[s].body.reply # <<>>
  /\ \A d \in DocIds : \A i \in 1..Len(store[d].history) :
       store[d].history[i].from = "tzevaot" => store[d].history[i].text # <<>>

\* two POSTs were answered 200, one with the fallback and one with the
\* trimmed text of the provider, and both replies are stored persona entries
C15_Witness ==
  /\ \A s \in Slots : /\ req[s].pc = "done" /\ req[s].method = "POST"
                      /\ req[s].status = 200
  /\ req[1].body.reply = FallbackReply
  /\ req[2].body.reply = <<"o", "k">>
  /\ Len(store[SeedKey].history) >= 4
  /\ store[SeedKey].history[Len(store[SeedKey].history)].text = <<"o", "k">>
  /\ store[SeedKey].history[Len(store[SeedKey].history) - 2].text = FallbackReply

\* C16: when the provider call of a POST fails the request ends with a
\* server-error response, the provider has been called once for that request
\* and is not called again, and the store is unchanged: no history entry, no
\* seenCount increment, no lastMessage or lastReply.
C16_ProviderFailureEnds ==
  [][\A s \in Slots :
       /\ (req[s].method = "POST" /\ req[s].pc = "create" /\ req'[s] # req[s])
          => /\ req'[s].pc \in {"set", "done"}
             /\ req'[s].nCreate = 1
             /\ store' = store
       /\ PostProviderFails(s)
          => /\ req'[s].pc = "done"
             /\ req'[s].status = 500
             /\ req'[s].body.kind = "error"
             /\ req'[s].nCreate = 1
             /\ req'[s].nSet = 0
             /\ \A d \in DocIds :
                  /\ store'[d].history = store[d].history
                  /\ store'[d].seenCount = store[d].seenCount
                  /\ store'[d].lastMessage = store[d].lastMessage
                  /\ store'[d].lastReply = store[d].lastReply
       /\ (req'[s].pc = "create" /\ req'[s] # req[s])
          => /\ req[s].pc = "get"
             /\ req'[s].nCreate = 1]_vars

\* the only request of the behaviour, a POST for a record of 9 exchanges,
\* ended with 500 after one provider call and no write; the record is as
\* it was
C16_Witness ==
  /\ started = 1
  /\ \E s \in Slots :
       /\ req[s].method = "POST" /\ req[s].pc = "done"
       /\ req[s].status = 500
       /\ req[s].nGet = 1 /\ req[s].nCreate = 1 /\ req[s].nSet = 0
  /\ store[SeedKey].seenCount = 9
  /\ Len(store[SeedKey].history) = 18
  /\ store[SeedKey].lastMessage = Hello.v

\* C17: when the write of a POST fails the request answers with a
\* server-error response that carries no reply, and the store is as it was
\* before the request: no step of the request has changed any field of any
\* record, so a later load returns the record unchanged.
C17_FailedWriteLeavesRecord ==
  [][\A s \in Slots :
       /\ PostStoreFails(s)
          => /\ req'[s].pc = "done"
             /\ req'[s].status = 500
             /\ req'[s].body.kind = "error"
             /\ req'[s].body.reply = <<>>
             /\ req'[s].body.history = <<>>
             /\ store' = store
       /\ (req'[s] # req[s] /\ req'[s].method = "POST" /\ ~Writes(s))
          => store' = store]_vars

\* a POST for a record of 10 exchanges ended with 500 at its write, and a
\* GET was answered with the record of 10 exchanges, its oldest pair
\* still first
C17_Witness ==
  /\ req[1].method = "POST" /\ req[1].pc = "done" /\ req[1].status = 500
  /\ req[1].nSet = 1
  /\ req[2].method = "GET" /\ req[2].pc = "done" /\ req[2].status = 200
  /\ req[2].body.seenCount = 10
  /\ Len(req[2].body.history) = 20
  /\ req[2].body.history[1].ts = 1
  /\ req[2].body.history = store[SeedKey].history
  /\ store[SeedKey] = Seed(10)

\* a field of the request that is missing or empty
Missing(x) == x \in {Undefined, JsStr(<<>>)}

\* C18: a POST whose identity or message is missing or empty, and a GET
\* whose identity is missing, is answered 400 and has issued no load, no
\* provider call and no write.
C18_MissingFieldRejected ==
  \A s \in Slots :
    (\/ /\ req[s].method = "POST"
        /\ (Missing(req[s].walletAddress) \/ Missing(req[s].message))
     \/ /\ req[s].method = "GET"
        /\ req[s].walletAddress = Undefined)
    => /\ req[s].pc = "done"
       /\ req[s].status = 400
       /\ req[s].body.kind = "error"
       /\ req[s].nGet = 0
       /\ req[s].nCreate = 0
       /\ req[s].nSet = 0

\* while another request was being handled, a POST with an identity and an
\* empty message was answered 400 with no load issued; no record exists
C18_Witness ==
  /\ req[1].pc = "get"
  /\ req[2].method = "POST" /\ req[2].pc = "done" /\ req[2].status = 400
  /\ req[2].walletAddress = Walletabc /\ req[2].message = JsStr(<<>>)
  /\ req[2].nGet = 0
  /\ \A d \in DocIds : ~store[d].exists

\* C19 as stated: a request whose identity is empty or is not a string (a
\* number, true, an array, an object) is rejected, and no record is read or
\* written for it.
C19_Original ==
  \A s \in Slots :
    (/\ req[s].pc # "idle"
     /\ (req[s].walletAddress.t # "string" \/ req[s].walletAddress = JsStr(<<>>)))
    => /\ req[s].pc = "done"
       /\ req[s].status \in {400, 500}
       /\ req[s].nGet = 0
       /\ req[s].nSet = 0

\* the system message of request s without the identifiers it lists
WithoutIdentifiers(s) ==
  [req[s].messagesForOpenAI[1].system[1] EXCEPT !.daysOwnedList = <<>>,
                                                !.firstDay = <<>>]

\* requests s and r have built their prompts and are identical except in
\* their owned items
DifferInOwnedItemsOnly(s, r) ==
  /\ req[s].method = "POST" /\ req[s].pc \in {"create", "set"}
  /\ req[r].method = "POST" /\ req[r].pc \in {"create", "set"}
  /\ req[s].walletAddress = req[r].walletAddress
  /\ req[s].isHolder = req[r].isHolder
  /\ req[s].message = req[r].message
  /\ req[s].userData = req[r].userData

\* C20 as stated: two requests that are identical except that their owned
\* items fall into different bands (early: parsed integer <= 365, mid:
\* 366..1095) get system messages that differ in more than the identifiers
\* they list.
C20_Original ==
  \A s \in Slots : \A r \in Slots :
    (/\ DifferInOwnedItemsOnly(s, r)
     /\ <<req[s].hasGenesisDay, req[s].hasLongJourneyDay>>
          # <<req[r].hasGenesisDay, req[r].hasLongJourneyDay>>)
    => WithoutIdentifiers(s) # WithoutIdentifiers(r)

\* the steps a POST takes after one another
PostOrder ==
  {<<"idle", "get">>, <<"idle", "done">>, <<"done", "get">>, <<"done", "done">>,
   <<"get", "create">>, <<"get", "done">>, <<"create", "set">>,
   <<"create", "done">>, <<"set", "done">>}

\* C21: within one POST the steps are load, provider call, write, response
\* in that order: the provider is called only when the load has returned,
\* the write is issued only when the provider has returned, each of the three
\* happens at most once, and the one response is sent by the step that ends
\* the request, a 200 only after the write.
C21_StepsInOrder ==
  [][\A s \in Slots :
       (req'[s] # req[s] /\ req'[s].method = "POST")
       => LET a == req[s].pc
              b == req'[s].pc
              n == <<req'[s].nGet, req'[s].nCreate, req'[s].nSet>>
          IN /\ <<a, b>> \in PostOrder
             /\ (a \in {"idle", "done"}) => started' = started + 1
             /\ (b = "get") => n = <<1, 0, 0>>
             /\ (b = "create") => n = <<1, 1, 0>>
             /\ (b = "set") => n = <<1, 1, 1>>
             /\ (b # "done") => (req'[s].status = 0 /\ req'[s].body = NoBody)
             /\ (b = "done")
                => /\ req'[s].status \in {200, 400, 500}
                   /\ req'[s].body.kind \in {"chat", "error"}
                   /\ (a \in {"get", "create", "set"})
                      => n = <<req[s].nGet, req[s].nCreate, req[s].nSet>>
                   /\ (req'[s].status = 200) => (a = "set" /\ n = <<1, 1, 1>>)]_vars

\* the only request of the behaviour, a POST for a new identity, was
\* answered 200 after one load, one provider call and one write
C21_Witness ==
  /\ started = 1
  /\ \E s \in Slots :
       /\ req[s].method = "POST" /\ req[s].pc = "done" /\ req[s].status = 200
       /\ <<req[s].nGet, req[s].nCreate, req[s].nSet>> = <<1, 1, 1>>
       /\ req[s].body.kind = "chat"
  /\ store[SeedKey].seenCount = 1
  /\ store[SeedKey].lastSeen = 1

\* the requests whose write to record d is applied in this step
WritersOf(d) == {s \in Slots : Writes(s) /\ req[s].normalizedWallet = d}

\* C22: in any interleaving every step changes a record's seenCount by the
\* number of POST writes to it that the step completes, so seenCount counts
\* the completed writes: the increment is applied to the stored value also
\* when the writer loaded another value, and the last writer does not
\* overwrite the count although it overwrites the history.
C22_SeenCountCountsWrites ==
  [][/\ \A d \in DocIds :
          store'[d].seenCount = store[d].seenCount + Cardinality(WritersOf(d))
     /\ \A s \in Slots :
          (Writes(s)
           /\ req[s].userData.seenCount # store[req[s].normalizedWallet].seenCount)
          => /\ store'[req[s].normalizedWallet].seenCount
                  # req[s].userData.seenCount + 1
             /\ store'[req[s].normalizedWallet].history = req[s].trimmedHistory]_vars

\* two POSTs both loaded the record of 10 exchanges before either wrote:
\* seenCount is 12, and the history has lost one pair only and holds the
\* exchange of the last writer alone
C22_Witness ==
  /\ \A s \in Slots : /\ req[s].pc = "done" /\ req[s].method = "POST"
                      /\ req[s].status = 200
                      /\ Len(req[s].body.history) = 20
                      /\ req[s].body.history[1].ts = 2
  /\ store[SeedKey].seenCount = 12
  /\ Len(store[SeedKey].history) = 20
  /\ store[SeedKey].history[1].ts = 2
  /\ store[SeedKey].history[18].ts = 10

\* C23: when the POSTs of a record run one after another and only POSTs
\* write the records, every record's history has min(20, 2 * seenCount)
\* entries in every reachable state.
C23_LengthFromSeenCount ==
  \A d \in DocIds :
    Len(store[d].history) = Min(20, 2 * store[d].seenCount)

\* a POST wrote the record of 9 exchanges and the next POST, which loaded
\* the record of 10, has written too: 11 writes, 20 entries, the first
\* pair evicted
C23_Witness ==
  /\ store[SeedKey].seenCount = 11
  /\ Len(store[SeedKey].history) = 20
  /\ store[SeedKey].history[1].ts = 2
  /\ store[SeedKey].history[20].ts = 11
  /\ \A s \in Slots : /\ req[s].pc = "done" /\ req[s].method = "POST"
                      /\ req[s].status = 200
                      /\ Len(req[s].body.history) = 20
  /\ req[1].body.history[1].ts = 1
  /\ req[2].body.history[1].ts = 2

\* C24 as stated: once a record's stored ownedItems are non-empty no POST
\* makes them empty again.
C24_Original ==
  [][\A d \in DocIds :
       store[d].daysOwned # <<>> => store'[d].daysOwned # <<>>]_vars

\* C24, amended: a POST that loaded a record with non-empty ownedItems never
\* stores an empty list: when it supplies an empty sequence, or none, it
\* stores the list it loaded, which is the stored one when no write came
\* between its load and its write; and a stored list changes only by the
\* write of a POST.
C24_LoadedItemsNeverEmptied ==
  [][/\ \A s \in Slots :
          (Writes(s) /\ req[s].userData.daysOwned # <<>>)
          => /\ store'[req[s].normalizedWallet].daysOwned # <<>>
             /\ ~SuppliesItems(s)
                => store'[req[s].normalizedWallet].daysOwned
                     = req[s].userData.daysOwned
             /\ (~SuppliesItems(s)
                 /\ req[s].userData.daysOwned
                      = store[req[s].normalizedWallet].daysOwned)
                => store'[req[s].normalizedWallet].daysOwned
                     = store[req[s].normalizedWallet].daysOwned
     /\ \A d \in DocIds :
          store'[d].daysOwned # store[d].daysOwned
          => \E s \in Slots : Writes(s) /\ req[s].normalizedWallet = d]_vars

\* a POST with ownedItems 100, 500, 2000 was answered, then a POST with an
\* empty sequence of ownedItems loaded that record and wrote: the three
\* items are still stored
C24_Witness ==
  /\ req[1].pc = "done" /\ req[1].method = "POST" /\ req[1].status = 200
  /\ req[1].daysOwned = Days3
  /\ Len(req[1].body.history) = 2
  /\ req[2].pc = "done" /\ req[2].method = "POST" /\ req[2].status = 200
  /\ req[2].daysOwned = JsArr(<<>>)
  /\ Len(req[2].body.history) = 4
  /\ store[Key0xabc].seenCount = 2
  /\ store[Key0xabc].daysOwned
       = <<<<"1", "0", "0">>, <<"5", "0", "0">>, <<"2", "0", "0", "0">>>>

====
